---- MODULE Spec2Model ----
(***************************************************************************)
(* Model of attr_sync_thing's watchdog event handler                       *)
(* (src/attr_sync_thing/__main__.py, class MyWatchdogEventHandler).        *)
(*                                                                         *)
(* One ingestion thread dispatches file system events to on_modified,      *)
(* on_moved and on_deleted.  on_deleted keeps one threading.Timer per path *)
(* in the dict deletion_timers; the body of such a timer,                  *)
(* _process_delete_event, runs on the timer's own thread.  on_moved        *)
(* starts a second kind of timer, the retry of try_twice.  The attribute   *)
(* storage is an external collaborator: the model records every call made  *)
(* to it and lets each call succeed, raise IOError or raise another        *)
(* exception.                                                              *)
(***************************************************************************)
EXTENDS Integers, Sequences, FiniteSets, Bags, TLC

(* Number of file system events the observer delivers in one behaviour. *)
MaxEvents == 3

VARIABLES
    deletion_timers,  \* self.deletion_timers: dict path -> timer (its index in timers)
    timers,           \* every threading.Timer created so far, in creation order
    pc,               \* position of the ingestion thread inside on_deleted
    event,            \* the event on_deleted is handling, between its statements
    nEvents,          \* number of events dispatched so far
    exists,           \* the set of watched-tree paths that exist on disk
    calls,            \* number of calls made to each storage method, per argument and thread
    tries,            \* bag of try_twice invocations: [fn, path, results of the calls of f so far]
    selfWriteMarks,   \* paths the storage marked as written by itself
    echoes,           \* paths for which a Modified event arrived while they were marked
    errors,           \* exceptions caught and logged by dispatch
    threadErrors,     \* exceptions that ended a timer thread
    loopAlive         \* FALSE once an exception escaped dispatch

vars == << deletion_timers, timers, pc, event, nEvents, exists, calls, tries,
           selfWriteMarks, echoes, errors, threadErrors, loopAlive >>

----------------------------------------------------------------------------
(* File names are sequences of characters, paths are sequences of names. *)

Last(s) == s[Len(s)]

HexChars == {"a", "b", "c", "d", "e", "f",
             "0", "1", "2", "3", "4", "5", "6", "7", "8", "9"}

(* The regular expression of the source, used with re.match, reads: a dot,  *)
(* a greedy group of any characters, a dot, a tilde, one or more of the     *)
(* characters a-f and 0-9, end of string.                                   *)
(* TempfileSplits is the set of positions k at which the part after the    *)
(* group can start: name[1] is a dot, name[k] is a dot, name[k+1] is a     *)
(* tilde, then one or more hex characters up to the end of the name (the   *)
(* end anchor also matches before one trailing newline).  The group        *)
(* matches no newline.                                                     *)
TempfileSplits(name) ==
    { k \in 2..Len(name) :
        /\ name[1] = "."
        /\ name[k] = "."
        /\ k + 2 <= Len(name)
        /\ name[k + 1] = "~"
        /\ \A i \in 2..(k - 1) : name[i] # "\n"
        /\ \E e \in {Len(name)} \cup
                    (IF name[Len(name)] = "\n" THEN {Len(name) - 1} ELSE {}) :
              /\ e >= k + 2
              /\ \A i \in (k + 2)..e : name[i] \in HexChars }

(* nextcloud_tempfile_re.match(name): [ok |-> matched, group |-> group(1)]; *)
(* the group is greedy, so it ends at the last possible split.             *)
nextcloud_tempfile_re(name) ==
    LET splits == TempfileSplits(name) IN
    IF splits = {}
    THEN [ok |-> FALSE, group |-> << >>]
    ELSE LET k == CHOOSE x \in splits : \A y \in splits : y <= x
         IN  [ok |-> TRUE, group |-> SubSeq(name, 2, k - 1)]

(* pathlib.Path.is_relative_to: base is a prefix of path. *)
is_relative_to(path, base) ==
    /\ Len(base) <= Len(path)
    /\ SubSeq(path, 1, Len(base)) = base

(* configuration.root_path and configuration.storage_dir_path. *)
root_path == << <<"r">> >>
storage_dir_path == << <<"r">>, <<".", "s">> >>

(* File names the configured filter rejects. *)
FilterRejects == { <<"x">>, << ".", "x", ".", "~", "a" >> }

(* configuration.process_this: the path is a watched file, i.e. it lies    *)
(* under the watched root, outside the record store, and passes the filter. *)
process_this(path) ==
    /\ is_relative_to(path, root_path)
    /\ ~ is_relative_to(path, storage_dir_path)
    /\ Last(path) \notin FilterRejects

----------------------------------------------------------------------------
(* The inputs: the paths events are about. *)

DocName == <<"d">>
TmpName == <<".", "d", ".", "~", "a">>

Doc    == root_path \o << DocName >>
Tmp    == root_path \o << TmpName >>
Ign    == root_path \o << <<"x">> >>
Rec    == storage_dir_path \o << DocName >>
RecTmp == storage_dir_path \o << TmpName >>

Paths == {Doc, Tmp, Ign, Rec, RecTmp}
Watched == {p \in Paths : process_this(p)}

(* The Modified and the Deleted events delivered. *)
ModifiedPaths == {Doc, Ign, Rec}
DeletedPaths == {Doc, Ign, Rec}

(* The Moved events delivered: publish renames into the watched tree and   *)
(* into the record store, and renames that are none.                       *)
MovePairs == { <<Tmp, Doc>>, <<RecTmp, Rec>>, <<Doc, Ign>>, <<Ign, Doc>>,
               <<Tmp, Ign>> }

(* Outcome of one call into the attribute storage. *)
Results == {"ok", "IOError", "Error"}

NoEvent == [type |-> "none", src |-> << >>, dest |-> << >>]

ModifiedEvent(path) == [type |-> "modified", src |-> path, dest |-> << >>]
MovedEvent(src, dest) == [type |-> "moved", src |-> src, dest |-> dest]
DeletedEvent(path) == [type |-> "deleted", src |-> path, dest |-> << >>]

StoreOps == {"update_pickle_of", "delete_pickle_for", "restore_from_pickle",
             "process_updated_pickle"}
Threads == {"handler", "timer"}
CallKeys == StoreOps \X (Paths \cup {Last(p) : p \in Paths}) \X Threads

(* calls after one more call of storage method op with argument arg made on thread th. *)
Called(c, op, arg, th) ==
    [c EXCEPT ![<<op, arg, th>>] = @ + 1]

----------------------------------------------------------------------------
Init ==
    /\ deletion_timers = << >>
    /\ timers = << >>
    /\ pc = "idle"
    /\ event = NoEvent
    /\ nEvents = 0
    /\ exists \in SUBSET (DeletedPaths \cap Watched)
    /\ calls = [k \in CallKeys |-> 0]
    /\ tries = EmptyBag
    /\ selfWriteMarks = {}
    /\ echoes = {}
    /\ errors = 0
    /\ threadErrors = 0
    /\ loopAlive = TRUE

----------------------------------------------------------------------------
(* threading.Timer, as the handler uses it.  A timer is                     *)
(*   created   constructed, not started                                    *)
(*   waiting   started; its thread waits for the interval or the cancel    *)
(*             flag, and has not yet looked at the flag                    *)
(*   fired     past the cancel check: its function is running              *)
(*   dead      it saw the cancel flag and ended without calling            *)
(* and then in a state of the function it runs.  cancelled tells whether   *)
(* cancel() was called on it, and whether that was before the timer thread *)
(* looked at the flag (early) or after (late).                             *)

NewTimer(fn, path, state) ==
    [fn |-> fn, path |-> path, state |-> state, cancelled |-> "no"]

(* Timer.cancel(): sets the finished flag; no effect on a timer past its check. *)
TimerCancel(t) ==
    IF t.cancelled # "no" THEN t
    ELSE [t EXCEPT !.cancelled = IF t.state \in {"created", "waiting"}
                                 THEN "early" ELSE "late"]

(* Timer.run(): the flag as the timer thread reads it after its wait. *)
TimerSeesCancel(t) == t.cancelled # "no"

TimerIds == 1..Len(timers)

(* Timers started and neither run nor dead: the pending ones. *)
Pending(t) == t.state = "waiting" /\ t.cancelled = "no"

(* dict operations on deletion_timers *)
DictSet(d, k, v) == [x \in DOMAIN d \cup {k} |-> IF x = k THEN v ELSE d[x]]
DictDel(d, k) == [x \in DOMAIN d \ {k} |-> d[x]]

----------------------------------------------------------------------------
(* dispatch: FileSystemEventHandler.dispatch inside try/except Exception.   *)
(* raised is the class of the exception the handler method raised, or     *)
(* "none".  Every class raised here derives from Exception.                *)
ExceptionClasses == {"IOError", "Error", "KeyError"}

(* dispatch with except IOError in place of except Exception. *)
dispatch_io_only(raised) ==
    IF raised = "none"
    THEN UNCHANGED << errors, loopAlive >>
    ELSE IF raised = "IOError"
         THEN /\ errors' = errors + 1
              /\ UNCHANGED loopAlive
         ELSE /\ loopAlive' = FALSE
              /\ UNCHANGED errors

dispatch(raised) ==
    IF raised = "none"
    THEN UNCHANGED << errors, loopAlive >>
    ELSE IF raised \in ExceptionClasses
         THEN /\ errors' = errors + 1
              /\ UNCHANGED loopAlive
         ELSE /\ loopAlive' = FALSE
              /\ UNCHANGED errors

(* What a failed storage call raises. *)
Raises(r) == IF r = "ok" THEN "none" ELSE r

(* The observer hands one more event to the handler. *)
CanDispatch == pc = "idle" /\ loopAlive /\ nEvents < MaxEvents

BeginEvent ==
    /\ CanDispatch
    /\ nEvents' = nEvents + 1

----------------------------------------------------------------------------
(* on_modified *)

(* on_modified as it would be with the debounce the source has commented   *)
(* out: the capture is left to a timer, the handler calls nothing.         *)
on_modified_deferred(path) ==
    /\ UNCHANGED calls
    /\ dispatch("none")

(* on_modified as it would be if it dropped the echo of a self-write. *)
on_modified_guarded(path) ==
    IF process_this(path) /\ path \notin selfWriteMarks
    THEN \E r \in Results :
            /\ calls' = Called(calls, "update_pickle_of", path, "handler")
            /\ dispatch(Raises(r))
    ELSE /\ UNCHANGED calls
         /\ dispatch("none")

(* on_modified as it would be if it handed a change in the record store   *)
(* to the storage.                                                         *)
on_modified_forward(path) ==
    IF is_relative_to(path, storage_dir_path)
    THEN \E r \in Results :
            /\ calls' = Called(calls, "process_updated_pickle", Last(path), "handler")
            /\ dispatch(Raises(r))
    ELSE IF process_this(path)
         THEN \E r \in Results :
                 /\ calls' = Called(calls, "update_pickle_of", path, "handler")
                 /\ dispatch(Raises(r))
         ELSE /\ UNCHANGED calls
              /\ dispatch("none")

on_modified(path) ==
    IF ~ is_relative_to(path, storage_dir_path)
    THEN IF ~ process_this(path)
         THEN /\ UNCHANGED calls
              /\ dispatch("none")
         ELSE \E r \in Results :
                 /\ calls' = Called(calls, "update_pickle_of", path, "handler")
                 /\ dispatch(Raises(r))
    ELSE /\ UNCHANGED calls
         /\ dispatch("none")

Modified(path) ==
    /\ BeginEvent
    /\ on_modified(path)
    /\ echoes' = IF path \in selfWriteMarks THEN echoes \cup {path} ELSE echoes
    /\ UNCHANGED << deletion_timers, timers, pc, event, exists, tries, selfWriteMarks,
                    threadErrors >>

----------------------------------------------------------------------------
(* on_moved *)

(* The closures of on_moved with their storage methods swapped. *)
StoreCallSwapped(fn, path) ==
    IF fn = "attempt_process_updated_pickle"
    THEN << "restore_from_pickle", path >>
    ELSE << "process_updated_pickle", Last(path) >>

(* The storage call the closures of on_moved make: <<method, argument>>. *)
StoreCallOf(fn, path) ==
    IF fn = "attempt_process_updated_pickle"
    THEN << "process_updated_pickle", Last(path) >>
    ELSE << "restore_from_pickle", path >>

(* The storage marks a path as written by itself before it restores onto it. *)
markSelfWrite(marks, fn, path) ==
    IF fn = "attempt_restore_from_pickle" THEN marks \cup {path} ELSE marks

(* One invocation of try_twice and the outcomes of its calls of f. *)
Try(fn, path, results) == [fn |-> fn, path |-> path, results |-> results]

(* try_twice with a bare except: it retries after any failure. *)
try_twice_any(fn, path) ==
    \E r \in Results :
        /\ calls' = Called(calls, StoreCallOf(fn, path)[1],
                           StoreCallOf(fn, path)[2], "handler")
        /\ selfWriteMarks' = markSelfWrite(selfWriteMarks, fn, path)
        /\ tries' = tries (+) SetToBag({Try(fn, path, << r >>)})
        /\ timers' = IF r # "ok"
                     THEN Append(timers, NewTimer(fn, path, "waiting"))
                     ELSE timers
        /\ dispatch("none")

(* try_twice leaving every call of f to a timer. *)
try_twice_deferred(fn, path) ==
    /\ UNCHANGED << calls, selfWriteMarks >>
    /\ tries' = tries (+) SetToBag({Try(fn, path, << "IOError" >>)})
    /\ timers' = Append(timers, NewTimer(fn, path, "waiting"))
    /\ dispatch("none")

(* try_twice(f): call f; on IOError start a Timer(0.75, f). *)
try_twice(fn, path) ==
    \E r \in Results :
        /\ calls' = Called(calls, StoreCallOf(fn, path)[1],
                           StoreCallOf(fn, path)[2], "handler")
        /\ selfWriteMarks' = markSelfWrite(selfWriteMarks, fn, path)
        /\ tries' = tries (+) SetToBag({Try(fn, path, << r >>)})
        /\ timers' = IF r = "IOError"
                     THEN Append(timers, NewTimer(fn, path, "waiting"))
                     ELSE timers
        /\ dispatch(IF r = "IOError" THEN "none" ELSE Raises(r))

(* The else branch of on_moved without the retirement of the old path. *)
generic_move_keep(src_path, dest_path) ==
    /\ UNCHANGED << timers, tries, selfWriteMarks >>
    /\ \E r2 \in Results :
        IF process_this(dest_path)
        THEN /\ calls' = Called(calls, "update_pickle_of", dest_path, "handler")
             /\ dispatch(Raises(r2))
        ELSE /\ UNCHANGED calls
             /\ dispatch("none")

(* The else branch of on_moved: a file not moved by nextCloud. *)
generic_move(src_path, dest_path) ==
    /\ UNCHANGED << timers, tries, selfWriteMarks >>
    /\ \E r1, r2 \in Results :
        LET c1 == IF process_this(src_path)
                  THEN Called(calls, "delete_pickle_for", src_path, "handler")
                  ELSE calls
            x1 == IF process_this(src_path) THEN Raises(r1) ELSE "none"
            c2 == IF x1 = "none" /\ process_this(dest_path)
                  THEN Called(c1, "update_pickle_of", dest_path, "handler")
                  ELSE c1
            x2 == IF x1 # "none" THEN x1
                  ELSE IF process_this(dest_path) THEN Raises(r2) ELSE "none"
        IN  /\ calls' = c2
            /\ dispatch(x2)

(* on_moved taking every temp file name for a publish rename, whatever the *)
(* new name is.                                                            *)
on_moved_any_temp(src, dest) ==
    IF nextcloud_tempfile_re(Last(src)).ok
    THEN IF is_relative_to(dest, storage_dir_path)
         THEN try_twice("attempt_process_updated_pickle", dest)
         ELSE try_twice("attempt_restore_from_pickle", dest)
    ELSE generic_move(src, dest)

on_moved(src, dest) ==
    LET src_name == Last(src)
        dest_name == Last(dest)
        match == nextcloud_tempfile_re(src_name)
    IN  IF match.ok
        THEN IF match.group = dest_name
             THEN IF is_relative_to(dest, storage_dir_path)
                  THEN try_twice("attempt_process_updated_pickle", dest)
                  ELSE try_twice("attempt_restore_from_pickle", dest)
             ELSE /\ UNCHANGED << calls, timers, tries, selfWriteMarks >>
                  /\ dispatch("none")
        ELSE generic_move(src, dest)

Moved(src, dest) ==
    /\ BeginEvent
    /\ on_moved(src, dest)
    /\ UNCHANGED << deletion_timers, pc, event, exists, echoes, threadErrors >>

----------------------------------------------------------------------------
(* on_deleted, statement by statement: the timer threads delete from       *)
(* deletion_timers between the statements of the ingestion thread.         *)

(* on_deleted without the check of process_this. *)
on_deleted_unfiltered(src_path) ==
    /\ pc' = IF src_path \in DOMAIN deletion_timers THEN "cancel" ELSE "assign"
    /\ dispatch("none")
    /\ UNCHANGED << deletion_timers, timers >>

(* if process_this(src_path): if src_path in self.deletion_timers: *)
on_deleted(src_path) ==
    /\ pc' = IF ~ process_this(src_path) THEN "idle"
             ELSE IF src_path \in DOMAIN deletion_timers THEN "cancel"
             ELSE "assign"
    /\ dispatch("none")
    /\ UNCHANGED << deletion_timers, timers >>

Deleted(path) ==
    /\ BeginEvent
    /\ on_deleted(path)
    /\ event' = IF pc' = "idle" THEN NoEvent ELSE DeletedEvent(path)
    /\ UNCHANGED << exists, calls, tries, selfWriteMarks, echoes, threadErrors >>

(* self.deletion_timers[src_path].cancel() *)
on_deleted_cancel(src_path) ==
    IF src_path \in DOMAIN deletion_timers
    THEN /\ timers' = [timers EXCEPT ![deletion_timers[src_path]] = TimerCancel(@)]
         /\ pc' = "assign"
         /\ dispatch("none")
    ELSE /\ pc' = "idle"
         /\ dispatch("KeyError")
         /\ UNCHANGED timers

DeletedCancel ==
    /\ pc = "cancel"
    /\ on_deleted_cancel(event.src)
    /\ event' = IF pc' = "idle" THEN NoEvent ELSE event
    /\ UNCHANGED << deletion_timers, nEvents, exists, calls, tries,
                    selfWriteMarks, echoes, threadErrors >>

(* self.deletion_timers[src_path] = threading.Timer(...) *)
on_deleted_assign(src_path) ==
    /\ timers' = Append(timers,
                        NewTimer("_process_delete_event", src_path, "created"))
    /\ deletion_timers' = DictSet(deletion_timers, src_path, Len(timers) + 1)
    /\ pc' = "start"

DeletedAssign ==
    /\ pc = "assign"
    /\ on_deleted_assign(event.src)
    /\ UNCHANGED << event, nEvents, exists, calls, tries, selfWriteMarks, echoes,
                    errors, threadErrors, loopAlive >>

(* self.deletion_timers[src_path].start() *)
on_deleted_start(src_path) ==
    IF src_path \in DOMAIN deletion_timers
    THEN /\ timers' = [timers EXCEPT ![deletion_timers[src_path]].state = "waiting"]
         /\ dispatch("none")
    ELSE /\ dispatch("KeyError")
         /\ UNCHANGED timers

DeletedStart ==
    /\ pc = "start"
    /\ on_deleted_start(event.src)
    /\ pc' = "idle"
    /\ event' = NoEvent
    /\ UNCHANGED << deletion_timers, nEvents, exists, calls, tries,
                    selfWriteMarks, echoes, threadErrors >>

----------------------------------------------------------------------------
(* The timer threads. *)

(* Timer.run without the look at the flag: the function is always called. *)
timer_run_unchecked(t) ==
    [t EXCEPT !.state = "fired"]

(* Timer.run: wait for the interval or the flag, then call the function    *)
(* unless the flag is set.                                                 *)
timer_run(t) ==
    [t EXCEPT !.state = IF TimerSeesCancel(t) THEN "dead" ELSE "fired"]

TimerRun(i) ==
    /\ timers[i].state = "waiting"
    /\ timers' = [timers EXCEPT ![i] = timer_run(@)]
    /\ UNCHANGED << deletion_timers, pc, event, nEvents, exists, calls, tries,
                    selfWriteMarks, echoes, errors, threadErrors, loopAlive >>

(* _process_delete_event, first statement: del self.deletion_timers[src_path] *)
process_delete_del(i) ==
    IF timers[i].path \in DOMAIN deletion_timers
    THEN /\ deletion_timers' = DictDel(deletion_timers, timers[i].path)
         /\ timers' = [timers EXCEPT ![i].state = "checking"]
         /\ UNCHANGED threadErrors
    ELSE /\ timers' = [timers EXCEPT ![i].state = "keyerror"]
         /\ threadErrors' = threadErrors + 1
         /\ UNCHANGED deletion_timers

ProcessDeleteDel(i) ==
    /\ timers[i].fn = "_process_delete_event"
    /\ timers[i].state = "fired"
    /\ process_delete_del(i)
    /\ UNCHANGED << pc, event, nEvents, exists, calls, tries, selfWriteMarks, echoes,
                    errors, loopAlive >>

(* _process_delete_event without its existence check. *)
process_delete_unchecked(i) ==
    \E r \in Results :
        /\ calls' = Called(calls, "delete_pickle_for", timers[i].path, "timer")
        /\ timers' = [timers EXCEPT ![i].state = "retired"]
        /\ threadErrors' = IF r = "ok" THEN threadErrors ELSE threadErrors + 1

(* _process_delete_event, the rest:                                         *)
(* _process_delete_event giving up after its del. *)
process_delete_never(i) ==
    /\ timers' = [timers EXCEPT ![i].state = "kept"]
    /\ UNCHANGED << calls, threadErrors >>

(* if not src_path.exists(): self.storage.delete_pickle_for(src_path)       *)
process_delete_check(i) ==
    IF timers[i].path \notin exists
    THEN \E r \in Results :
            /\ calls' = Called(calls, "delete_pickle_for", timers[i].path, "timer")
            /\ timers' = [timers EXCEPT ![i].state = "retired"]
            /\ threadErrors' = IF r = "ok" THEN threadErrors ELSE threadErrors + 1
    ELSE /\ timers' = [timers EXCEPT ![i].state = "kept"]
         /\ UNCHANGED << calls, threadErrors >>

ProcessDeleteCheck(i) ==
    /\ timers[i].fn = "_process_delete_event"
    /\ timers[i].state = "checking"
    /\ process_delete_check(i)
    /\ UNCHANGED << deletion_timers, pc, event, nEvents, exists, tries,
                    selfWriteMarks, echoes, errors, loopAlive >>

(* The retry of try_twice: the timer thread calls f once more. *)
retry_run(i) ==
    \E r \in Results :
        /\ calls' = Called(calls, StoreCallOf(timers[i].fn, timers[i].path)[1],
                           StoreCallOf(timers[i].fn, timers[i].path)[2], "timer")
        /\ selfWriteMarks' = markSelfWrite(selfWriteMarks, timers[i].fn, timers[i].path)
        /\ tries' = (tries (-) SetToBag({Try(timers[i].fn, timers[i].path, << "IOError" >>)}))
                        (+) SetToBag({Try(timers[i].fn, timers[i].path, << "IOError", r >>)})
        /\ timers' = [timers EXCEPT ![i].state = "done"]
        /\ threadErrors' = IF r = "ok" THEN threadErrors ELSE threadErrors + 1

RetryRun(i) ==
    /\ timers[i].fn # "_process_delete_event"
    /\ timers[i].state = "fired"
    /\ retry_run(i)
    /\ UNCHANGED << deletion_timers, pc, event, nEvents, exists, echoes, errors,
                    loopAlive >>

----------------------------------------------------------------------------
(* The file system under the watched root changes at any time. *)
FsCreate(path) ==
    /\ path \notin exists
    /\ exists' = exists \cup {path}
    /\ UNCHANGED << deletion_timers, timers, pc, event, nEvents, calls, tries,
                    selfWriteMarks, echoes, errors, threadErrors, loopAlive >>

FsRemove(path) ==
    /\ path \in exists
    /\ exists' = exists \ {path}
    /\ UNCHANGED << deletion_timers, timers, pc, event, nEvents, calls, tries,
                    selfWriteMarks, echoes, errors, threadErrors, loopAlive >>

----------------------------------------------------------------------------
Next ==
    \/ \E p \in ModifiedPaths : Modified(p)
    \/ \E m \in MovePairs : Moved(m[1], m[2])
    \/ \E p \in DeletedPaths : Deleted(p)
    \/ DeletedCancel
    \/ DeletedAssign
    \/ DeletedStart
    \/ \E i \in TimerIds : TimerRun(i)
    \/ \E i \in TimerIds : ProcessDeleteDel(i)
    \/ \E i \in TimerIds : ProcessDeleteCheck(i)
    \/ \E i \in TimerIds : RetryRun(i)
    \/ \E p \in DeletedPaths \cap Watched : FsCreate(p)
    \/ \E p \in DeletedPaths \cap Watched : FsRemove(p)

Spec == Init /\ [][Next]_vars

----------------------------------------------------------------------------
(* The start command of main: on KeyboardInterrupt it stops the observer   *)
(* and joins it.  The observer thread ends after the event it is handling. *)
(* The timers are not touched: a pending timer can still fire after the    *)
(* observer has stopped, for as long as the process lives.                 *)

(* A shutdown that cancels every timer. *)
shutdown_cancel_all ==
    /\ loopAlive' = FALSE
    /\ timers' = [i \in TimerIds |-> TimerCancel(timers[i])]
    /\ UNCHANGED deletion_timers

(* observer.stop(); observer.join() *)
shutdown ==
    /\ loopAlive' = FALSE
    /\ UNCHANGED << timers, deletion_timers >>

Shutdown ==
    /\ loopAlive
    /\ shutdown
    /\ UNCHANGED << pc, event, nEvents, exists, calls, tries, selfWriteMarks,
                    echoes, errors, threadErrors >>

NextShutdown ==
    \/ Deleted(Doc)
    \/ Moved(Tmp, Doc)
    \/ DeletedCancel
    \/ DeletedAssign
    \/ DeletedStart
    \/ \E i \in TimerIds : TimerRun(i)
    \/ \E i \in TimerIds : ProcessDeleteDel(i)
    \/ \E i \in TimerIds : ProcessDeleteCheck(i)
    \/ \E i \in TimerIds : RetryRun(i)
    \/ FsCreate(Doc)
    \/ FsRemove(Doc)
    \/ Shutdown

SpecShutdown == Init /\ [][NextShutdown]_vars

----------------------------------------------------------------------------
(* The events on paths under the record store, of every type and through   *)
(* every branch of the handlers, next to Deleted events of a watched path. *)

NextStore ==
    \/ Modified(Rec)
    \/ \E m \in { <<RecTmp, Rec>>, <<Rec, Ign>>, <<Ign, Rec>>, <<Rec, RecTmp>> } :
          Moved(m[1], m[2])
    \/ \E p \in { Rec, RecTmp, Doc } : Deleted(p)
    \/ DeletedCancel
    \/ DeletedAssign
    \/ DeletedStart
    \/ \E i \in TimerIds : TimerRun(i)
    \/ \E i \in TimerIds : ProcessDeleteDel(i)
    \/ \E i \in TimerIds : ProcessDeleteCheck(i)
    \/ \E i \in TimerIds : RetryRun(i)

SpecStore == Init /\ [][NextStore]_vars

----------------------------------------------------------------------------
(* Deleted events of one watched path with threads that are scheduled      *)
(* fairly: the ingestion thread goes on with the statements of on_deleted, *)
(* and a timer thread that can take a step does not wait forever.  Events  *)
(* and changes on disk come as they like.                                  *)

NextDeleted ==
    \/ Deleted(Doc)
    \/ DeletedCancel
    \/ DeletedAssign
    \/ DeletedStart
    \/ \E i \in TimerIds : TimerRun(i)
    \/ \E i \in TimerIds : ProcessDeleteDel(i)
    \/ \E i \in TimerIds : ProcessDeleteCheck(i)
    \/ FsCreate(Doc)
    \/ FsRemove(Doc)

(* One step of the ingestion thread inside on_deleted, one step of any    *)
(* timer thread.                                                           *)
HandlerStep == DeletedCancel \/ DeletedAssign \/ DeletedStart

TimerStep ==
    \E i \in TimerIds :
        TimerRun(i) \/ ProcessDeleteDel(i) \/ ProcessDeleteCheck(i)

SpecDeleted ==
    /\ Init
    /\ [][NextDeleted]_vars
    /\ WF_vars(HandlerStep)
    /\ WF_vars(TimerStep)

----------------------------------------------------------------------------
(* The handler applied to one given event, again and again.  The event is  *)
(* drawn from the file names below; dispatch routes it by its type to      *)
(* on_modified or to on_moved.                                             *)

DocTxt      == << "d", "o", "c", ".", "t", "x", "t" >>
DocStemTmp  == << ".", "d", "o", "c", ".", "~", "a", "b", "1", "2", "e", "f" >>
DocTxtTmp   == << ".", "d", "o", "c", ".", "t", "x", "t", ".", "~",
                  "a", "b", "1", "2", "e", "f" >>
Report      == << "r", "e", "p", "o", "r", "t" >>
ReportTmp   == << ".", "r", "e", "p", "o", "r", "t", ".", "~",
                  "1", "a", "2", "b", "3", "c" >>
ReportTmpNl == ReportTmp \o << "\n" >>
Other       == << "o", "t", "h", "e", "r" >>
ReportBak   == << "r", "e", "p", "o", "r", "t", ".", "b", "a", "k" >>
NlName      == << "n", "\n", "e", "w" >>
NlNameTmp   == << ".", "n", "\n", "e", "w", ".", "~", "1", "a" >>
UpperTmp    == << ".", "r", "e", "p", "o", "r", "t", ".", "~", "1", "A" >>
IgnName     == << "x" >>
IgnTmpName  == << ".", "x", ".", "~", "a" >>

InputNames == { DocTxt, DocStemTmp, DocTxtTmp, Report, ReportTmp, ReportTmpNl,
                Other, ReportBak, NlName, NlNameTmp, UpperTmp, IgnName,
                IgnTmpName }

InRoot(name) == root_path \o << name >>
InStore(name) == storage_dir_path \o << name >>

InputPaths == { InRoot(n) : n \in InputNames } \cup { InStore(DocTxt) }

InputEvents ==
    { ModifiedEvent(p) : p \in InputPaths }
    \cup { MovedEvent(m[1], m[2]) :
             m \in { x \in InputPaths \X InputPaths : x[1] # x[2] } }

InputCallKeys == StoreOps \X (InputPaths \cup InputNames) \X Threads

InitInputs ==
    /\ deletion_timers = << >>
    /\ timers = << >>
    /\ pc = "idle"
    /\ event \in InputEvents
    /\ nEvents = 0
    /\ exists = {}
    /\ calls = [k \in InputCallKeys |-> 0]
    /\ tries = EmptyBag
    /\ selfWriteMarks = {}
    /\ echoes = {}
    /\ errors = 0
    /\ threadErrors = 0
    /\ loopAlive = TRUE

HandleModified ==
    /\ event.type = "modified"
    /\ Modified(event.src)

HandleMoved ==
    /\ event.type = "moved"
    /\ Moved(event.src, event.dest)

NextInputs ==
    \/ HandleModified
    \/ HandleMoved
    \/ \E i \in TimerIds : TimerRun(i)
    \/ \E i \in TimerIds : RetryRun(i)

SpecInputs == InitInputs /\ [][NextInputs]_vars

----------------------------------------------------------------------------
(* Properties.  Calls(op, arg, th) is the number of calls of storage method *)
(* op with argument arg made so far on thread th.                          *)

Calls(op, arg, th) == calls[<< op, arg, th >>]

DeleteTimers == { i \in TimerIds : timers[i].fn = "_process_delete_event" }
RetryTimers == TimerIds \ DeleteTimers

(* No storage method has been called and no timer has been made. *)
NothingDone ==
    /\ \A k \in DOMAIN calls : calls[k] = 0
    /\ timers = << >>
    /\ deletion_timers = << >>

(* C1, as claimed: the capture of a watched path is debounced, so handling *)
(* a Modified(p) event calls update_pickle_of not at all; the call is left *)
(* to a timer that fires after the debounce delay.                         *)
C1_CaptureIsDebounced ==
    [][ \A p \in ModifiedPaths :
          (process_this(p) /\ Modified(p))
             => Calls("update_pickle_of", p, "handler")'
                   = Calls("update_pickle_of", p, "handler") ]_vars

(* C1, amended: every Modified(p) event for a watched path p makes exactly *)
(* one update_pickle_of(p) call, on the handler thread while the event is  *)
(* handled, and starts no timer: N events make N calls.                    *)
C1_CapturePerEvent ==
    [][ \A p \in ModifiedPaths :
          (process_this(p) /\ Modified(p))
             => /\ Calls("update_pickle_of", p, "handler")'
                      = Calls("update_pickle_of", p, "handler") + 1
                /\ timers' = timers ]_vars

(* C1 witness: two Modified events for the watched path were handled, two  *)
(* captures were made and there is no timer.                               *)
C1_Witness ==
    /\ Calls("update_pickle_of", Doc, "handler") = 2
    /\ nEvents = 2
    /\ timers = << >>

(* C2: a delete-confirmation timer makes no delete_pickle_for(p) call when *)
(* p exists at the time the timer checks: in a step that starts with p on  *)
(* disk, the number of delete_pickle_for(p) calls by timers stays as is.   *)
C2_NoRetireWhileExists ==
    [][ \A p \in exists :
          Calls("delete_pickle_for", p, "timer")'
             = Calls("delete_pickle_for", p, "timer") ]_vars

(* C2 witness: a confirmation timer for a path has fired, found the path   *)
(* on disk and kept the record; no timer ever retired it.                  *)
C2_Witness ==
    \E i \in DeleteTimers :
        /\ timers[i].state = "kept"
        /\ timers[i].path \in exists
        /\ Calls("delete_pickle_for", timers[i].path, "timer") = 0

(* C3, as claimed: a Modified(p) event that arrives while p carries a      *)
(* self-write marker is dropped: it makes no update_pickle_of(p) call.     *)
C3_EchoIsDropped ==
    [][ \A p \in ModifiedPaths :
          (p \in selfWriteMarks /\ Modified(p))
             => Calls("update_pickle_of", p, "handler")'
                   = Calls("update_pickle_of", p, "handler") ]_vars

(* C3, amended: the handler does not consult a self-write marker.  A       *)
(* Modified(p) event for a watched path p that the storage has restored    *)
(* onto makes an update_pickle_of(p) call like any other, and the handler  *)
(* consumes no marker.                                                     *)
C3_EchoIsCaptured ==
    [][ \A p \in ModifiedPaths :
          (p \in selfWriteMarks /\ process_this(p) /\ Modified(p))
             => /\ Calls("update_pickle_of", p, "handler")'
                      = Calls("update_pickle_of", p, "handler") + 1
                /\ selfWriteMarks' = selfWriteMarks ]_vars

(* C3 witness: a Modified event for the watched path arrived after a       *)
(* restore onto it, and a capture was made.                                *)
C3_Witness ==
    /\ Doc \in echoes
    /\ Calls("restore_from_pickle", Doc, "handler") = 1
    /\ Calls("update_pickle_of", Doc, "handler") = 1

(* C4: a publish rename into the record store makes one                    *)
(* process_updated_pickle call with the new file name and nothing else; a  *)
(* publish rename to any other place makes one restore_from_pickle call    *)
(* with the new path and nothing else.  Neither changes deletion_timers.   *)
C4_PublishRename ==
    [][ /\ Moved(RecTmp, Rec)
           => /\ calls' = Called(calls, "process_updated_pickle", DocName, "handler")
              /\ deletion_timers' = deletion_timers
        /\ Moved(Tmp, Doc)
           => /\ calls' = Called(calls, "restore_from_pickle", Doc, "handler")
              /\ deletion_timers' = deletion_timers ]_vars

(* C4 witness: both publish renames were handled; the only storage calls   *)
(* ever made are one process_updated_pickle and one restore_from_pickle.   *)
C4_Witness ==
    /\ Calls("process_updated_pickle", DocName, "handler") = 1
    /\ Calls("restore_from_pickle", Doc, "handler") = 1
    /\ nEvents = 2
    /\ \A k \in CallKeys :
          k \notin { << "process_updated_pickle", DocName, "handler" >>,
                     << "restore_from_pickle", Doc, "handler" >> }
             => calls[k] = 0

C6_OnePendingPerPath ==
    \A p \in Paths :
        Cardinality({ i \in DeleteTimers :
                         timers[i].path = p /\ Pending(timers[i]) }) <= 1

(* C7: a timer whose cancel() was called before its thread looked at the   *)
(* flag never calls its function: it is waiting to end, or dead.           *)
C7_CancelledNeverRuns ==
    \A i \in TimerIds :
        timers[i].cancelled = "early" => timers[i].state \in {"waiting", "dead"}

(* C7 witness: on_deleted cancelled the pending timer of a path and        *)
(* started its successor; the cancelled timer ended without running.       *)
C7_Witness ==
    \E i, j \in DeleteTimers :
        /\ i < j
        /\ timers[i].path = timers[j].path
        /\ timers[i].cancelled = "early"
        /\ timers[i].state = "dead"
        /\ timers[j].state = "waiting"

(* C8, as claimed: a delete-confirmation timer that on_deleted creates is  *)
(* started by the end of that on_deleted call, and once it fires it gets   *)
(* past its first statement to the existence check.                        *)
C8_NewTimerDoesItsWork ==
    \A i \in DeleteTimers :
        /\ timers[i].state # "keyerror"
        /\ timers[i].state = "created" => (pc = "start" /\ i = Len(timers))

(* C9: no exception leaves dispatch; the step in which dispatch logs one   *)
(* ends the handling of that event and leaves deletion_timers and the      *)
(* timers as they were, and the next event can be dispatched.              *)
C9_ExceptionsStayInDispatch ==
    /\ []loopAlive
    /\ [][ errors' # errors
             => /\ errors' = errors + 1
                /\ pc' = "idle"
                /\ deletion_timers' = deletion_timers
                /\ timers' = timers
                /\ (nEvents' < MaxEvents => CanDispatch') ]_vars

(* C9 witness: events raised an exception twice, one of them in            *)
(* on_deleted itself, and the handler is back at waiting for events.       *)
C9_Witness ==
    /\ errors = 2
    /\ \E i \in DeleteTimers : timers[i].state = "created"
    /\ pc = "idle"
    /\ loopAlive

(* C10, as claimed: a rename that is no publish rename does not retire the *)
(* record of a watched old path while the event is handled (the retirement *)
(* is left to a delete-confirmation timer): handling the event makes no    *)
(* delete_pickle_for(old) call.                                            *)
C10_RenameAwayIsDebounced ==
    [][ \A m \in MovePairs :
          (process_this(m[1]) /\ m \notin {<< Tmp, Doc >>, << RecTmp, Rec >>}
              /\ Moved(m[1], m[2]))
             => Calls("delete_pickle_for", m[1], "handler")'
                   = Calls("delete_pickle_for", m[1], "handler") ]_vars

(* C10, amended: a Moved(old, new) event whose old name has not the shape  *)
(* of a temp file and whose old path is a watched path retires the record  *)
(* of old at once: one delete_pickle_for(old) call on the handler thread   *)
(* while the event is handled, no timer, no change of deletion_timers.     *)
C10_RenameAwayRetiresAtOnce ==
    [][ \A m \in MovePairs :
          (process_this(m[1]) /\ Last(m[1]) # TmpName /\ Moved(m[1], m[2]))
             => /\ Calls("delete_pickle_for", m[1], "handler")'
                      = Calls("delete_pickle_for", m[1], "handler") + 1
                /\ timers' = timers
                /\ deletion_timers' = deletion_timers ]_vars

(* C10 witness: the watched path was renamed away while it still has a     *)
(* pending delete-confirmation timer; its record was retired by the        *)
(* handler, not by the timer.                                              *)
C10_Witness ==
    /\ Calls("delete_pickle_for", Doc, "handler") = 1
    /\ Calls("delete_pickle_for", Doc, "timer") = 0
    /\ \E i \in DeleteTimers : timers[i].path = Doc /\ Pending(timers[i])

(* C11, as claimed: handling the Moved event with old name .doc.~ab12ef    *)
(* and new name doc.txt, the target in the watched tree, calls             *)
(* restore_from_pickle(doc.txt) once.                                      *)
C11_StemRenameRestores ==
    [][ (event = MovedEvent(InRoot(DocStemTmp), InRoot(DocTxt)) /\ HandleMoved)
           => Calls("restore_from_pickle", InRoot(DocTxt), "handler")'
                 = Calls("restore_from_pickle", InRoot(DocTxt), "handler") + 1 ]_vars

(* C11, amended: the stem of .doc.~ab12ef is doc, not doc.txt, so handling *)
(* that event calls no storage method and makes no timer.  With the old    *)
(* name .doc.txt.~ab12ef the handler calls restore_from_pickle(doc.txt)    *)
(* once per event, and timers call it at most once per call of the handler. *)
C11_PublishRestoresOnce ==
    /\ [][ /\ (event = MovedEvent(InRoot(DocStemTmp), InRoot(DocTxt)) /\ HandleMoved)
                => UNCHANGED << calls, timers, deletion_timers >>
           /\ (event = MovedEvent(InRoot(DocTxtTmp), InRoot(DocTxt)) /\ HandleMoved)
                => /\ calls' = Called(calls, "restore_from_pickle",
                                      InRoot(DocTxt), "handler")
                   /\ Len(timers') <= Len(timers) + 1 ]_vars
    /\ [](Calls("restore_from_pickle", InRoot(DocTxt), "timer")
             <= Calls("restore_from_pickle", InRoot(DocTxt), "handler"))

(* C11 witness: the event with old name .doc.~ab12ef was handled as often  *)
(* as the bound allows, and nothing was done.                              *)
C11_Witness ==
    /\ event = MovedEvent(InRoot(DocStemTmp), InRoot(DocTxt))
    /\ nEvents = MaxEvents
    /\ NothingDone

(* C12, as claimed: the publish-rename matcher matches exactly when the    *)
(* old name is a dot, the stem, a dot, a tilde and a non-empty token of    *)
(* lower-case hex characters, and the new name equals the stem.  A match   *)
(* shows as the restore call of the publish branch on the new path.        *)
C12_MatchesExactlyTheShape ==
    [][ (HandleMoved /\ ~ is_relative_to(event.dest, storage_dir_path))
           => LET old == Last(event.src)
                  new == Last(event.dest)
                  shape == /\ Len(old) >= Len(new) + 4
                           /\ old[1] = "."
                           /\ SubSeq(old, 2, Len(new) + 1) = new
                           /\ old[Len(new) + 2] = "."
                           /\ old[Len(new) + 3] = "~"
                           /\ \A i \in (Len(new) + 4)..Len(old) :
                                  old[i] \in HexChars
              IN  shape <=> (calls' = Called(calls, "restore_from_pickle",
                                             event.dest, "handler")) ]_vars

(* C13, as claimed: a Modified event on a path under the record store is   *)
(* forwarded to the storage, so handling it calls a storage method.        *)
C13_StoreChangeIsForwarded ==
    [][ (HandleModified /\ is_relative_to(event.src, storage_dir_path))
           => calls' # calls ]_vars

(* C13, amended: handling a Modified event on a path under the record      *)
(* store calls no storage method at all, neither a hook for the changed    *)
(* record nor capture, restore or retire, and makes no timer.              *)
C13_StoreChangeIsIgnored ==
    [][ (HandleModified /\ is_relative_to(event.src, storage_dir_path))
           => UNCHANGED << calls, timers, deletion_timers, tries,
                           selfWriteMarks, errors >> ]_vars

(* C13 witness: the Modified event on a record was handled as often as the *)
(* bound allows, and nothing was done.                                     *)
C13_Witness ==
    /\ event = ModifiedEvent(InStore(DocTxt))
    /\ nEvents = MaxEvents
    /\ NothingDone

C15_NoCallAfterShutdown ==
    [][ ~ loopAlive => calls' = calls ]_vars

(* C15, amended: shutdown stops the intake of events and nothing else.  It *)
(* cancels no timer and leaves deletion_timers as it is; after it no event *)
(* is dispatched, while the event being handled is handled to its end and  *)
(* the timers run on.                                                      *)
C15_ShutdownStopsIntakeOnly ==
    [][ /\ Shutdown => UNCHANGED << timers, deletion_timers, calls, pc >>
        /\ ~ loopAlive => /\ nEvents' = nEvents
                          /\ ~ CanDispatch' ]_vars

(* C15 witness: after shutdown a delete-confirmation timer and a retry     *)
(* timer are still pending.                                                *)
C15_Witness ==
    /\ ~ loopAlive
    /\ \E i \in DeleteTimers : Pending(timers[i])
    /\ \E i \in RetryTimers : Pending(timers[i])

(* C16, as claimed: capture, restore and retire are never executed on the  *)
(* event-ingestion thread: the handler thread makes no storage call.       *)
C16_NoStoreCallOnIngestion ==
    \A k \in DOMAIN calls : k[3] = "handler" => calls[k] = 0

(* C16, amended: timers never capture; a timer restores or processes an    *)
(* updated record only as the retry of a call the handler thread made      *)
(* itself and saw fail; timers retire only as delete-confirmation timers.  *)
(* Every other storage call is made on the ingestion thread.               *)
C16_OnlyRetryAndConfirmOffThread ==
    \A p \in Paths :
        /\ Calls("update_pickle_of", p, "timer") = 0
        /\ Calls("restore_from_pickle", p, "timer")
              <= Calls("restore_from_pickle", p, "handler")
        /\ Calls("process_updated_pickle", Last(p), "timer")
              <= Calls("process_updated_pickle", Last(p), "handler")
        /\ Calls("delete_pickle_for", p, "timer") > 0
              => \E i \in TimerIds : /\ timers[i].fn = "_process_delete_event"
                                     /\ timers[i].path = p
                                     /\ timers[i].state = "retired"

(* C16 witness: the handler thread has captured, restored and retired, and *)
(* no timer was ever made.                                                 *)
C16_Witness ==
    /\ Calls("update_pickle_of", Doc, "handler") = 1
    /\ Calls("restore_from_pickle", Doc, "handler") = 1
    /\ Calls("delete_pickle_for", Doc, "handler") = 1
    /\ timers = << >>

(* C17, as claimed: a Moved event whose old name has the temp-file shape    *)
(* and whose new name differs from the stem is handled as a generic        *)
(* rename: with the old and the new path both watched paths, handling it   *)
(* retires the old path or captures the new one, at once or by a timer.    *)
C17_TempMismatchIsGeneric ==
    [][ ( /\ HandleMoved
          /\ \A n \in {Last(event.src), Last(event.dest)} :
                \A i \in 1..Len(n) : n[i] # "\n"
          /\ nextcloud_tempfile_re(Last(event.src)).ok
          /\ nextcloud_tempfile_re(Last(event.src)).group # Last(event.dest)
          /\ process_this(event.src)
          /\ process_this(event.dest) )
           => \/ calls' # calls
              \/ timers' # timers
              \/ deletion_timers' # deletion_timers ]_vars

(* C18, as claimed: whenever the action of a delete-confirmation timer is  *)
(* about to run its del, deletion_timers holds the key of its path.        *)
C18_DelFindsItsKey ==
    \A i \in DeleteTimers :
        timers[i].state = "fired" => timers[i].path \in DOMAIN deletion_timers

(* C19, as claimed: an event on an ignored path, one outside the record    *)
(* store that process_this rejects, causes no storage call and no timer;   *)
(* so does a Moved event both of whose paths are ignored, whatever the     *)
(* shape of the names.                                                     *)
C19_IgnoredDoesNothing ==
    [][ LET Ignored(p) == /\ ~ is_relative_to(p, storage_dir_path)
                          /\ ~ process_this(p)
        IN  ( \/ HandleModified /\ Ignored(event.src)
              \/ HandleMoved /\ Ignored(event.src) /\ Ignored(event.dest) )
               => UNCHANGED << calls, timers, deletion_timers >> ]_vars

(* C20: with fair threads, for the n-th Deleted(p) event of a watched path *)
(* p: if p does not exist from the arrival of the event on, a timer calls  *)
(* delete_pickle_for(p) after the arrival, whatever Deleted(p) events      *)
(* follow: c calls were made before the arrival, and there will be more.   *)
(* In the end, when no more events arrive, deletion_timers holds no entry  *)
(* for p.                                                                  *)
C20_DeletedIsRetired ==
    /\ \A n \in 1..MaxEvents : \A c \in 0..(n - 1) :
          ( /\ <>(nEvents = n - 1 /\ Calls("delete_pickle_for", Doc, "timer") = c)
            /\ <>(nEvents = n)
            /\ [](IF nEvents < n
                  THEN Calls("delete_pickle_for", Doc, "timer") <= c
                  ELSE Doc \notin exists) )
             => <>(Calls("delete_pickle_for", Doc, "timer") > c)
    /\ <>[](Doc \notin DOMAIN deletion_timers)

(* C20 witness: all events are handled, a timer lost its entry to another  *)
(* timer and raised KeyError, and still the path was retired and           *)
(* deletion_timers is empty.                                               *)
C20_Witness ==
    /\ nEvents = MaxEvents
    /\ pc = "idle"
    /\ Doc \notin exists
    /\ \E i \in DeleteTimers : timers[i].state = "keyerror"
    /\ \A i \in DeleteTimers : ~ Pending(timers[i])
    /\ Calls("delete_pickle_for", Doc, "timer") >= 1
    /\ deletion_timers = << >>

====
